---- MODULE Spec2Model ----
(***************************************************************************)
(* Model of src/src/query.tsx: the QueryClient registry, the Query entry   *)
(* (state, promise, subscribers, fetch, setState, subsribe) and the        *)
(* QueryObserver created by useQuery.                                      *)
(*                                                                         *)
(* The program is single threaded.  A synchronous run (a fetch() call up   *)
(* to its first await, or the continuation of the async function after the *)
(* await) is kept on `stack` as the broadcasts it still has to deliver;    *)
(* while the stack is not empty only that run takes steps.  The only       *)
(* suspension point is `await queryFn()` (line 121).                       *)
(*                                                                         *)
(* Observers are the ones useQuery creates: their callback is the rerender *)
(* dispatch of useReducer (lines 170, 183), which calls nothing of the     *)
(* cache, and the effect of useQuery subscribes an observer again only     *)
(* after its cleanup has unsubscribed it.  The functions of the client and *)
(* of an entry (getQuery, fetch, the unsubscribe functions) may also be    *)
(* called directly, any number of times.                                   *)
(*                                                                         *)
(* Specifications: Spec (one request, passive callbacks), SpecRegistry     *)
(* (every key, no component), SpecFair (Spec with one key and queryFn,     *)
(* under fairness of the runs and of the settling of queryFn) and          *)
(* SpecReentrant (an observer whose callback calls fetch, subscribe or an  *)
(* unsubscribe function while a broadcast is delivered).                   *)
(***************************************************************************)
EXTENDS Integers, Sequences, FiniteSets, TLC

VARIABLES
  queries,    \* QueryClient.queries: the sequence of Query entries
  observers,  \* the QueryObserver objects created by useQuery
  ops,        \* the invocations of the async function of fetch (lines 113-140)
  stack,      \* the broadcasts (setState forEach loops) of the running synchronous run
  received,   \* per observer: the onChange invocations it got from the running
              \* operations since its last attach
  live,       \* the observers attached and not unsubscribed since
  last        \* the call that returned in the last step, and what it returned

vars == <<queries, observers, ops, stack, received, live, last>>

----------------------------------------------------------------------------
(* Bounds of the model *)

NumObservers == 2
MaxOps == 2

ObsIds == 1..NumObservers

----------------------------------------------------------------------------
(* Values *)

NULL == 0                    \* query.promise = null
UNDEFINED == "undefined"     \* data: undefined, error: undefined

DataVals == {"X", "Y"}
ErrVals == {"boom", "bang"}
Fns == {"fn", "fn2"}

\* JSON-like primitives of a query key
Str(s) == <<"string", s>>
Num(n) == <<"number", n>>
JsNull == <<"null", "">>
JsUndefined == <<"undefined", "">>

KeyVals == { <<Str("c"), Num("1")>>, <<JsNull>>, <<JsUndefined>> }
\* every call passes a fresh array (useQuery's caller builds the key on each
\* render), so two calls never pass the same object: a key is its contents
Keys == KeyVals

\* JSON.stringify of one array element: strings are quoted, numbers are
\* printed, null and undefined both print as null
SerializeElement(p) ==
  CASE p[1] = "string" -> <<"\"", p[2], "\"">>
    [] p[1] = "number" -> <<p[2]>>
    [] OTHER -> <<"null">>

RECURSIVE SerializeList(_)
SerializeList(s) ==
  IF s = <<>> THEN <<>>
  ELSE IF Len(s) = 1 THEN SerializeElement(s[1])
  ELSE SerializeElement(s[1]) \o <<",">> \o SerializeList(Tail(s))

\* JSON.stringify(queryKey), as the sequence of the tokens of the string
JSONstringify(k) == <<"[">> \o SerializeList(k) \o <<"]">>

----------------------------------------------------------------------------
(* createQuery *)

InitialState ==
  [status |-> "loading", isFetching |-> TRUE, data |-> UNDEFINED, error |-> UNDEFINED]

createQuery(key, fn) ==
  [queryKey |-> key,
   queryHash |-> JSONstringify(key),
   queryFn |-> fn,
   promise |-> NULL,
   subscribers |-> <<>>,
   state |-> InitialState]

(* QueryClient.getQuery *)

Min(S) == CHOOSE x \in S : \A y \in S : x <= y

\* a mutant of FindQuery: find compares the key arrays, which are never the
\* same object
FindQuery_ByKeyObject(qs, hash) == 0

\* this.queries.find((d) => d.queryHash === queryHash): index of the first match, 0 if none
FindQuery(qs, hash) ==
  LET found == {i \in DOMAIN qs : qs[i].queryHash = hash}
  IN IF found = {} THEN 0 ELSE Min(found)

\* a mutant of getQuery: a hit rebuilds the entry with the new options
getQuery_LastWins(qs, key, fn) ==
  LET i == FindQuery(qs, JSONstringify(key))
  IN IF i = 0
     THEN [queries |-> Append(qs, createQuery(key, fn)), entry |-> Len(qs) + 1, created |-> TRUE]
     ELSE [queries |-> [qs EXCEPT ![i] = createQuery(key, fn)], entry |-> i, created |-> FALSE]

getQuery(qs, key, fn) ==
  LET queryHash == JSONstringify(key)
      i == FindQuery(qs, queryHash)
  IN IF i = 0
     THEN [queries |-> Append(qs, createQuery(key, fn)), entry |-> Len(qs) + 1, created |-> TRUE]
     ELSE [queries |-> qs, entry |-> i, created |-> FALSE]

----------------------------------------------------------------------------
(* The updaters passed to setState by fetch *)

\* a mutant of StartFetchState: a fetch puts the Entry back to loading
StartFetchState_Reload(old) == [old EXCEPT !.status = "loading", !.isFetching = TRUE,
                                           !.error = UNDEFINED]

\* lines 114-118
StartFetchState(old) == [old EXCEPT !.isFetching = TRUE, !.error = UNDEFINED]
SuccessState(old, data) == [old EXCEPT !.status = "success", !.data = data]

\* a mutant of ErrorState: the catch block clears the data of the Entry
ErrorState_ClearData(old, error) ==
  [old EXCEPT !.status = "error", !.error = error, !.data = UNDEFINED]

\* a mutant of ErrorState: the catch block sets the status and drops the error
ErrorState_NoError(old, error) == [old EXCEPT !.status = "error"]

ErrorState(old, error) == [old EXCEPT !.status = "error", !.error = error]

\* a mutant of EndFetchState: the finally block leaves isFetching alone
EndFetchState_Keep(old) == old

EndFetchState(old) == [old EXCEPT !.isFetching = FALSE]

\* a mutant of ResultState: the result sets the status and no payload
ResultState_StatusOnly(old, res) ==
  [old EXCEPT !.status = IF res[1] = "ok" THEN "success" ELSE "error"]

\* the state after the try or the catch block, for the outcome of queryFn
ResultState(old, res) ==
  IF res[1] = "ok" THEN SuccessState(old, res[2]) ELSE ErrorState(old, res[2])

\* how the promise of the async function settles: catch swallows every failure
SettledAs(res) == "done"

Outcomes == {<<"ok", d>> : d \in DataVals} \cup {<<"err", e>> : e \in ErrVals}
NoResult == <<"none", "">>

----------------------------------------------------------------------------
(* subsribe and the unsubscribe function it returns *)

\* a mutant of RemoveSubscriber: the filter keeps every subscriber
RemoveSubscriber_None(subs, o) == subs

\* a mutant of RemoveSubscriber: splice(indexOf(subscriber), 1), which
\* removes the last subscriber when the observer is not in the list
RemoveSubscriber_Splice(subs, o) ==
  IF \E j \in DOMAIN subs : subs[j] = o
  THEN SelectSeq(subs, LAMBDA sub : sub # o)
  ELSE SubSeq(subs, 1, Len(subs) - 1)

\* a mutant of RemoveSubscriber: the list is cut at the subscriber
RemoveSubscriber_Truncate(subs, o) ==
  IF \E j \in DOMAIN subs : subs[j] = o
  THEN SubSeq(subs, 1, Min({j \in DOMAIN subs : subs[j] = o}) - 1)
  ELSE subs

\* subscribers.filter((sub) => sub !== subscriber)
RemoveSubscriber(subs, o) == SelectSeq(subs, LAMBDA sub : sub # o)

subsribe(qs, qi, o) == [qs EXCEPT ![qi].subscribers = Append(@, o)]

\* a mutant of unsubscribe: the removal of the last subscriber abandons the
\* fetch in flight
unsubscribe_Abandon(qs, qi, o) ==
  [qs EXCEPT ![qi].subscribers = RemoveSubscriber(@, o),
             ![qi].promise = IF RemoveSubscriber(qs[qi].subscribers, o) = <<>> THEN NULL ELSE @]

\* lines 152-156: the function returned by subsribe
unsubscribe(qs, qi, o) == [qs EXCEPT ![qi].subscribers = RemoveSubscriber(@, o)]

\* a mutant of getResult: the observer returns the state object the Entry
\* was created with
getResult_Initial(qs, o) == InitialState

\* line 81: observer.getResult(), which reads query.state at each call
getResult(qs, o) == qs[observers[o].query].state

\* a mutant of Broadcast: the loop stops one subscriber short
Broadcast_SkipLast(qs, qi, op, attached) ==
  [op |-> op,
   todo |-> SubSeq(qs[qi].subscribers, 1, Len(qs[qi].subscribers) - 1),
   notified |-> <<>>,
   expect |-> {o \in attached : observers[o].query = qi}]

\* setState: the forEach loop over the subscribers of entry qi, for the
\* mutation of operation op; `expect` are the observers attached at the call
Broadcast(qs, qi, op, attached) ==
  [op |-> op,
   todo |-> qs[qi].subscribers,
   notified |-> <<>>,
   expect |-> {o \in attached : observers[o].query = qi}]

----------------------------------------------------------------------------

NoCall == [call |-> "none", q |-> 0, o |-> 0, handle |-> NULL, flag |-> FALSE,
           key |-> <<>>, fn |-> ""]

Init ==
  /\ queries = <<>>
  /\ observers = [o \in ObsIds |-> [query |-> 0, notify |-> "noop"]]
  /\ ops = <<>>
  /\ stack = <<>>
  /\ received = [o \in ObsIds |-> <<>>]
  /\ live = {}
  /\ last = NoCall

Idle == stack = <<>>

\* client.getQuery(options) called from outside
CallGetQuery(key, fn) ==
  /\ Idle
  /\ LET r == getQuery(queries, key, fn)
     IN /\ queries' = r.queries
        /\ last' = [NoCall EXCEPT !.call = "getQuery", !.q = r.entry, !.flag = r.created,
                                  !.key = key, !.fn = fn]
  /\ UNCHANGED <<observers, ops, stack, received, live>>

\* useQuery on first render: createQueryObserver(client, {queryKey, queryFn})
UseQuery(o, key, fn) ==
  /\ Idle
  /\ observers[o].query = 0
  /\ LET r == getQuery(queries, key, fn)
     IN /\ queries' = r.queries
        /\ observers' = [observers EXCEPT ![o].query = r.entry]
        /\ last' = [NoCall EXCEPT !.call = "useQuery", !.o = o, !.q = r.entry,
                                  !.flag = r.created, !.key = key, !.fn = fn]
  /\ UNCHANGED <<ops, stack, received, live>>

\* a mutant of NoPromise: fetch without the deduplication test
NoPromise_Always(query) == TRUE

\* line 112: !query.promise
NoPromise(query) == query.promise = NULL

\* a mutant of fetch: `return query.promise` inside the if block, so that a
\* deduplicated call returns nothing
fetch_ReturnInside(qs, qi, attached) ==
  IF NoPromise(qs[qi])
  THEN /\ Len(ops) < MaxOps
       /\ queries' = [qs EXCEPT ![qi].state = StartFetchState(@)]
       /\ ops' = Append(ops, [q |-> qi, pc |-> "start", sync |-> TRUE, res |-> NoResult,
                               fn |-> "", stayed |-> {o \in attached : observers[o].query = qi}])
       /\ stack' = <<Broadcast(qs, qi, Len(ops) + 1, attached)>> \o stack
       /\ last' = NoCall
  ELSE /\ queries' = qs
       /\ last' = [NoCall EXCEPT !.call = "fetch", !.q = qi, !.handle = NULL]
       /\ UNCHANGED <<ops, stack>>

\* query.fetch() on entry qi of qs, with `attached` the observers attached
\* now and stk the forEach loops in progress under the call: the synchronous
\* part up to the first setState of the async function
fetchFrom(qs, qi, attached, stk) ==
  IF NoPromise(qs[qi])
  THEN /\ Len(ops) < MaxOps
       /\ queries' = [qs EXCEPT ![qi].state = StartFetchState(@)]
       /\ ops' = Append(ops, [q |-> qi, pc |-> "start", sync |-> TRUE, res |-> NoResult,
                               fn |-> "", stayed |-> {o \in attached : observers[o].query = qi}])
       /\ stack' = <<Broadcast(qs, qi, Len(ops) + 1, attached)>> \o stk
       /\ last' = NoCall
  ELSE /\ queries' = qs
       /\ last' = [NoCall EXCEPT !.call = "fetch", !.q = qi, !.handle = qs[qi].promise]
       /\ ops' = ops
       /\ stack' = stk

\* query.fetch() called when no forEach loop is in progress, or by the code
\* that runs when the loops of `stack` are
fetch(qs, qi, attached) == fetchFrom(qs, qi, attached, stack)

\* query.fetch() called from outside
CallFetch(qi) ==
  /\ Idle
  /\ qi \in DOMAIN queries
  /\ fetch(queries, qi, live)
  /\ UNCHANGED <<observers, received, live>>

\* observer.subscribe(callback), the effect of useQuery (lines 82-89, 181-184)
Attach(o) ==
  /\ Idle
  /\ observers[o].query # 0
  /\ o \notin live
  /\ observers' = [observers EXCEPT ![o].notify = "callback"]
  /\ live' = live \cup {o}
  /\ received' = [received EXCEPT ![o] = <<>>]
  /\ fetch(subsribe(queries, observers[o].query, o), observers[o].query, live \cup {o})

\* the function returned by subsribe, for observer o
Unsubscribe(o) ==
  /\ Idle
  /\ observers[o].notify = "callback"
  /\ queries' = unsubscribe(queries, observers[o].query, o)
  /\ live' = live \ {o}
  /\ ops' = [k \in DOMAIN ops |-> [ops[k] EXCEPT !.stayed = @ \ {o}]]
  /\ received' = [received EXCEPT ![o] = <<>>]
  /\ last' = [NoCall EXCEPT !.call = "unsubscribe", !.o = o, !.flag = (o \in live)]
  /\ UNCHANGED <<observers, stack>>

----------------------------------------------------------------------------
(* The steps of the running synchronous run *)

Top == stack[1]

\* setState's forEach: sub.notify() for the next subscriber of the loop
Notify ==
  /\ ~Idle
  /\ Top.todo # <<>>
  /\ LET o == Head(Top.todo)
         called == observers[o].notify = "callback"
     IN /\ stack' = <<[Top EXCEPT !.todo = Tail(@),
                                  !.notified = IF called THEN Append(@, o) ELSE @]>>
                    \o Tail(stack)
        /\ received' = [received EXCEPT ![o] =
                          IF called THEN Append(@, <<Top.op, ops[Top.op].pc>>) ELSE @]
  /\ last' = NoCall
  /\ UNCHANGED <<queries, observers, ops, live>>

\* a mutant of StillToVisit: the loop reads query.subscribers again at each
\* step and skips the subscribers that are no longer in it
StillToVisit_Live(todo, subs) ==
  SelectSeq(todo, LAMBDA sub : \E j \in DOMAIN subs : subs[j] = sub)

\* what a forEach loop in progress has yet to visit once query.subscribers
\* has become subs: the loop fixed its array and its length when it
\* started, push appends beyond that length (line 150) and filter builds
\* another array (lines 153-155), so the loop visits what it had to visit
StillToVisit(todo, subs) == todo

\* the loops in progress on entry qi once its subscribers have become subs
LoopsAfter(stk, qi, subs) ==
  [i \in DOMAIN stk |->
     IF ops[stk[i].op].q = qi
     THEN [stk[i] EXCEPT !.todo = StillToVisit(@, subs)]
     ELSE stk[i]]

\* the loops in progress once the running loop has called sub.notify() of
\* its next subscriber
AfterNotify ==
  <<[Top EXCEPT !.todo = Tail(@), !.notified = Append(@, Head(Top.todo))]>> \o Tail(stack)

\* the running loop invokes a callback that is not the rerender of useQuery
Reacts(o) ==
  /\ ~Idle
  /\ Top.todo # <<>>
  /\ o = Head(Top.todo)
  /\ observers[o].notify = "callback"

\* sub.notify() where the callback calls query.fetch() of its Entry
NotifyFetch(o) ==
  /\ Reacts(o)
  /\ received' = [received EXCEPT ![o] = Append(@, <<Top.op, ops[Top.op].pc>>)]
  /\ fetchFrom(queries, observers[o].query, live, AfterNotify)
  /\ UNCHANGED <<observers, live>>

\* sub.notify() where the callback invokes the unsubscribe function of
\* observer o2 (its own, or that of another observer)
NotifyUnsubscribe(o, o2) ==
  /\ Reacts(o)
  /\ observers[o2].notify = "callback"
  /\ LET qi == observers[o2].query
         qs == unsubscribe(queries, qi, o2)
     IN /\ queries' = qs
        /\ stack' = LoopsAfter(AfterNotify, qi, qs[qi].subscribers)
  /\ live' = live \ {o2}
  /\ ops' = [k \in DOMAIN ops |-> [ops[k] EXCEPT !.stayed = @ \ {o2}]]
  /\ received' = [[received EXCEPT ![o] = Append(@, <<Top.op, ops[Top.op].pc>>)]
                    EXCEPT ![o2] = <<>>]
  /\ last' = [NoCall EXCEPT !.call = "unsubscribe", !.o = o2, !.flag = (o2 \in live)]
  /\ UNCHANGED observers

\* sub.notify() where the callback subscribes observer o2, which is not
\* subscribed: observer.subscribe(callback) (lines 82-89)
NotifySubscribe(o, o2) ==
  /\ Reacts(o)
  /\ observers[o2].query # 0
  /\ o2 \notin live
  /\ observers' = [observers EXCEPT ![o2].notify = "callback"]
  /\ live' = live \cup {o2}
  /\ received' = [[received EXCEPT ![o] = Append(@, <<Top.op, ops[Top.op].pc>>)]
                    EXCEPT ![o2] = <<>>]
  /\ LET qi == observers[o2].query
         qs == subsribe(queries, qi, o2)
     IN fetchFrom(qs, qi, live \cup {o2}, LoopsAfter(AfterNotify, qi, qs[qi].subscribers))

\* line 121: queryFn() returns a promise; the async function suspends on the
\* await, fetch stores its promise (line 113) and returns it (line 143)
QueryFnReturns ==
  /\ ~Idle
  /\ Top.todo = <<>>
  /\ ops[Top.op].pc = "start"
  /\ LET k == Top.op
         qi == ops[k].q
     IN /\ ops' = [ops EXCEPT ![k].pc = "await", ![k].sync = FALSE,
                              ![k].fn = queries[qi].queryFn]
        /\ queries' = [queries EXCEPT ![qi].promise = k]
        /\ last' = [NoCall EXCEPT !.call = "fetch", !.q = qi, !.handle = k, !.flag = TRUE]
  /\ stack' = Tail(stack)
  /\ UNCHANGED <<observers, received, live>>

\* line 121: queryFn() throws when invoked; the catch block runs at once (lines 127-132)
QueryFnThrows(e) ==
  /\ ~Idle
  /\ Top.todo = <<>>
  /\ ops[Top.op].pc = "start"
  /\ LET k == Top.op
         qi == ops[k].q
         qs == [queries EXCEPT ![qi].state = ResultState(@, <<"err", e>>)]
     IN /\ ops' = [ops EXCEPT ![k].pc = "result", ![k].res = <<"err", e>>,
                              ![k].fn = queries[qi].queryFn]
        /\ queries' = qs
        /\ stack' = <<Broadcast(qs, qi, k, live)>> \o Tail(stack)
  /\ last' = NoCall
  /\ UNCHANGED <<observers, received, live>>

\* the promise returned by queryFn settles: the async function resumes after
\* the await with the try (lines 122-126) or the catch block (lines 128-132)
QueryFnSettles(k, res) ==
  /\ Idle
  /\ k \in DOMAIN ops
  /\ ops[k].pc = "await"
  /\ LET qi == ops[k].q
         qs == [queries EXCEPT ![qi].state = ResultState(@, res)]
     IN /\ ops' = [ops EXCEPT ![k].pc = "result", ![k].res = res]
        /\ queries' = qs
        /\ stack' = <<Broadcast(qs, qi, k, live)>>
  /\ last' = NoCall
  /\ UNCHANGED <<observers, received, live>>

\* a mutant of Finally: the finally block without `query.promise = null`
Finally_KeepPromise ==
  /\ ~Idle
  /\ Top.todo = <<>>
  /\ ops[Top.op].pc = "result"
  /\ LET k == Top.op
         qi == ops[k].q
         qs == [queries EXCEPT ![qi].state = EndFetchState(@)]
     IN /\ ops' = [ops EXCEPT ![k].pc = "end"]
        /\ queries' = qs
        /\ stack' = <<Broadcast(qs, qi, k, live)>> \o Tail(stack)
  /\ last' = NoCall
  /\ UNCHANGED <<observers, received, live>>

\* the finally block (lines 133-139)
Finally ==
  /\ ~Idle
  /\ Top.todo = <<>>
  /\ ops[Top.op].pc = "result"
  /\ LET k == Top.op
         qi == ops[k].q
         qs == [queries EXCEPT ![qi].promise = NULL, ![qi].state = EndFetchState(@)]
     IN /\ ops' = [ops EXCEPT ![k].pc = "end"]
        /\ queries' = qs
        /\ stack' = <<Broadcast(qs, qi, k, live)>> \o Tail(stack)
  /\ last' = NoCall
  /\ UNCHANGED <<observers, received, live>>

\* the async function returns and its promise settles; when it never
\* suspended, fetch only now stores the promise (line 113) and returns it
Return ==
  /\ ~Idle
  /\ Top.todo = <<>>
  /\ ops[Top.op].pc = "end"
  /\ LET k == Top.op
         qi == ops[k].q
     IN /\ ops' = [ops EXCEPT ![k].pc = SettledAs(ops[k].res), ![k].sync = FALSE,
                              ![k].res = NoResult, ![k].fn = "", ![k].stayed = {}]
        /\ received' = [o \in ObsIds |-> SelectSeq(received[o], LAMBDA n : n[1] # k)]
        /\ IF ops[k].sync
           THEN /\ queries' = [queries EXCEPT ![qi].promise = k]
                /\ last' = [NoCall EXCEPT !.call = "fetch", !.q = qi, !.handle = k,
                                          !.flag = TRUE]
           ELSE /\ last' = NoCall
                /\ UNCHANGED queries
  /\ stack' = Tail(stack)
  /\ UNCHANGED <<observers, live>>

\* the steps of a synchronous run, and the settling of an awaited promise
Run ==
  \/ Notify
  \/ QueryFnReturns
  \/ \E e \in ErrVals : QueryFnThrows(e)
  \/ \E k \in DOMAIN ops, res \in Outcomes : QueryFnSettles(k, res)
  \/ Finally
  \/ Return

\* the keys of one logical request: different arrays, one hash
OneRequest == {key \in Keys : JSONstringify(key) = JSONstringify(<<JsNull>>)}

\* components that all use one logical request, and direct calls of the
\* client: one Entry, any number of observers and fetches on it
Next ==
  \/ \E key \in OneRequest, fn \in Fns : CallGetQuery(key, fn)
  \/ \E o \in ObsIds, key \in OneRequest, fn \in Fns : UseQuery(o, key, fn)
  \/ \E qi \in DOMAIN queries : CallFetch(qi)
  \/ \E o \in ObsIds : Attach(o)
  \/ \E o \in ObsIds : Unsubscribe(o)
  \/ Run

Spec == Init /\ [][Next]_vars

\* a synchronous run is executed to its end (nothing else runs meanwhile),
\* and the promise returned by queryFn eventually settles
Fairness ==
  /\ WF_vars(Notify \/ QueryFnReturns \/ (\E e \in ErrVals : QueryFnThrows(e)) \/ Finally \/ Return)
  /\ \A k \in 1..MaxOps : WF_vars(\E res \in Outcomes : QueryFnSettles(k, res))

\* components that use one request with one key and one queryFn, and direct
\* fetch() calls
NextLive ==
  \/ \E o \in ObsIds : UseQuery(o, <<JsNull>>, "fn")
  \/ \E qi \in DOMAIN queries : CallFetch(qi)
  \/ \E o \in ObsIds : Attach(o)
  \/ \E o \in ObsIds : Unsubscribe(o)
  \/ Run

SpecFair == Init /\ [][NextLive]_vars /\ Fairness

\* the client used directly, for every request key and with no component
\* mounted: several entries in the registry, fetched through query.fetch()
NextRegistry ==
  \/ \E key \in Keys, fn \in Fns : CallGetQuery(key, fn)
  \/ \E qi \in DOMAIN queries : CallFetch(qi)
  \/ QueryFnReturns
  \/ \E e \in ErrVals : QueryFnThrows(e)
  \/ \E k \in DOMAIN ops, res \in Outcomes : QueryFnSettles(k, res)
  \/ Finally
  \/ Return

SpecRegistry == Init /\ [][NextRegistry]_vars

\* the observers whose callback calls back into the cache; the callback of
\* the others is the rerender of useQuery
Reactive == {1}

\* one resolution and one failure of queryFn
ReentrantOutcomes == {<<"ok", "X">>, <<"err", "boom">>}

\* an observer whose callback may call back into the cache while a broadcast
\* is delivered: fetch(), an unsubscribe function, or the subscribe of
\* another observer; one request, one key, one queryFn
NextReentrant ==
  \/ \E o \in ObsIds : UseQuery(o, <<JsNull>>, "fn")
  \/ \E qi \in DOMAIN queries : CallFetch(qi)
  \/ \E o \in ObsIds : Attach(o)
  \/ \E o \in ObsIds : Unsubscribe(o)
  \/ \E o \in Reactive : NotifyFetch(o)
  \/ \E o \in Reactive, o2 \in ObsIds : NotifyUnsubscribe(o, o2)
  \/ \E o \in Reactive, o2 \in ObsIds : NotifySubscribe(o, o2)
  \/ Notify
  \/ QueryFnReturns
  \/ QueryFnThrows("boom")
  \/ \E k \in DOMAIN ops, res \in ReentrantOutcomes : QueryFnSettles(k, res)
  \/ Finally
  \/ Return

SpecReentrant == Init /\ [][NextReentrant]_vars

----------------------------------------------------------------------------
(* Properties *)

\* the operations of entry qi that have started and not finished
Running(qi) == {k \in DOMAIN ops : ops[k].q = qi /\ ops[k].pc \in {"start", "await", "result", "end"}}

\* the operations of entry qi whose queryFn was invoked and has not settled
Awaiting(qi) == {k \in DOMAIN ops : ops[k].q = qi /\ ops[k].pc = "await"}

\* a fetch() call on entry qi, made directly or by an attach
FetchCalled(qi) ==
  \/ CallFetch(qi)
  \/ \E o \in ObsIds : observers[o].query = qi /\ Attach(o)

\* C1 (Dedup): a fetch() call on an Entry, direct or through attach, made
\* after queryFn was invoked and before it settles starts no operation and
\* invokes nothing, and returns the promise of the operation in flight; an
\* Entry never has two operations running.
C1_Dedup ==
  /\ [](\A qi \in DOMAIN queries : Cardinality(Running(qi)) <= 1)
  /\ [][\A qi \in DOMAIN queries :
         (Awaiting(qi) # {} /\ FetchCalled(qi)) =>
           /\ ops' = ops
           /\ last'.call = "fetch" /\ ~last'.flag
           /\ last'.handle \in Awaiting(qi)]_vars

\* two observers attached and a deduplicated fetch() just returned the
\* promise of the single operation, which still awaits queryFn
C1_Witness ==
  /\ Len(ops) = 1
  /\ ops[1].pc = "await"
  /\ Cardinality(live) = 2
  /\ last.call = "fetch" /\ ~last.flag /\ last.handle = 1

\* C2 (State invariant): from the end-fetch mutation of an operation until
\* its async function returns, status is success or error and isFetching is
\* false, for the first fetch and for every refetch.
C2_StateAfterFetch ==
  \A k \in DOMAIN ops :
    ops[k].pc = "end" =>
      /\ queries[ops[k].q].state.status \in {"success", "error"}
      /\ queries[ops[k].q].state.isFetching = FALSE

\* a refetch of a resolved Entry has failed and delivered its last broadcast
C2_Witness ==
  /\ Len(ops) = 2
  /\ ops[2].pc = "end" /\ ops[2].res[1] = "err"
  /\ Top.todo = <<>>
  /\ queries[ops[2].q].state.data # UNDEFINED

Count(o, seq) == Cardinality({j \in DOMAIN seq : seq[j] = o})

\* C3 (Broadcast completeness): when the forEach loop of a setState call has
\* finished, every observer attached to the Entry at the call had its
\* onChange invoked exactly once by it, and every other observer (never
\* attached, or unsubscribed before the call) zero times.
C3_BroadcastComplete ==
  \A i \in DOMAIN stack :
    \A o \in ObsIds :
      /\ Count(o, stack[i].notified) <= 1
      /\ stack[i].todo = <<>> =>
           Count(o, stack[i].notified) = (IF o \in stack[i].expect THEN 1 ELSE 0)

\* a broadcast has finished on an Entry with one attached observer, notified,
\* and one observer that had attached and unsubscribed before the call
C3_Witness ==
  /\ ~Idle
  /\ Top.todo = <<>>
  /\ \E o1, o2 \in ObsIds :
       /\ o1 # o2
       /\ Top.notified = <<o1>>
       /\ observers[o2].query = observers[o1].query
       /\ observers[o2].notify = "callback"
       /\ o2 \notin live

\* C4 (Identity stability): no two entries of the registry have the same
\* hash; getQuery returns the entry whose hash is the hash of the key it was
\* given, which is the entry created for any structurally equal key; an
\* entry once created keeps its place, key, hash and queryFn.
C4_IdentityStable ==
  /\ [](\A i, j \in DOMAIN queries : queries[i].queryHash = queries[j].queryHash => i = j)
  /\ [](last.call = "getQuery" =>
          /\ last.q \in DOMAIN queries
          /\ queries[last.q].queryHash = JSONstringify(last.key)
          /\ \A i \in DOMAIN queries : queries[i].queryKey = last.key => i = last.q)
  /\ [][/\ Len(queries') >= Len(queries)
        /\ \A i \in DOMAIN queries :
             /\ queries'[i].queryKey = queries[i].queryKey
             /\ queries'[i].queryHash = queries[i].queryHash
             /\ queries'[i].queryFn = queries[i].queryFn]_vars

\* the registry holds two entries and getQuery, given a key structurally
\* equal to the key of the second, returned the second
C4_Witness ==
  /\ Len(queries) = 2
  /\ last.call = "getQuery" /\ ~last.flag /\ last.q = 2
  /\ queries[2].queryKey = last.key

\* C5 (First registration wins): a getQuery call, direct or made by
\* createQueryObserver, for a hash that has an entry returns that entry and
\* leaves the registry, every entry and every operation unchanged; the
\* queryFn of an entry is the function of the call that created it and never
\* changes; the function an operation invokes is the queryFn of its entry,
\* whatever function the observers of the entry were created with.
C5_FirstRegistrationWins ==
  /\ [][(last'.call \in {"getQuery", "useQuery"} /\ ~last'.flag) =>
          /\ queries' = queries /\ ops' = ops
          /\ last'.q = FindQuery(queries, JSONstringify(last'.key))]_vars
  /\ [][\A i \in DOMAIN queries' :
          queries'[i].queryFn = (IF i \in DOMAIN queries THEN queries[i].queryFn ELSE last'.fn)]_vars
  /\ [](\A k \in DOMAIN ops : ops[k].fn \in {"", queries[ops[k].q].queryFn})

\* Scenario D: getQuery was called with fn2 for the hash of an entry created
\* with fn and returned that entry, whose fetch in flight has invoked fn
C5_Witness ==
  /\ last.call = "getQuery" /\ ~last.flag /\ last.fn = "fn2"
  /\ queries[last.q].queryFn = "fn"
  /\ \E k \in Awaiting(last.q) : ops[k].fn = "fn"

\* C6 (Failure containment): while the catch and finally blocks of an
\* operation whose queryFn failed with e run, status is error and error is
\* e, and isFetching is false after the finally mutation; the promise of the
\* async function is never rejected.
C6_FailureContained ==
  \A k \in DOMAIN ops :
    /\ ops[k].pc \in {"start", "await", "result", "end", "done"}
    /\ (ops[k].res[1] = "err" /\ ops[k].pc \in {"result", "end"}) =>
         /\ queries[ops[k].q].state.status = "error"
         /\ queries[ops[k].q].state.error = ops[k].res[2]
         /\ ops[k].pc = "end" => queries[ops[k].q].state.isFetching = FALSE

\* Scenario B: the only fetch of an Entry has rejected with "boom" and its
\* promise has settled
C6_Witness ==
  /\ Idle
  /\ Len(ops) = 1 /\ ops[1].pc = "done"
  /\ queries[ops[1].q].promise = NULL
  /\ queries[ops[1].q].state =
       [status |-> "error", isFetching |-> FALSE, data |-> UNDEFINED, error |-> "boom"]

\* the three broadcasts of operation k, in order
ThreeBroadcasts(k) == <<<<k, "start">>, <<k, "result">>, <<k, "end">>>>

IsPrefix(s, t) == Len(s) <= Len(t) /\ SubSeq(t, 1, Len(s)) = s

\* the forEach loop of the current mutation of operation k has finished
Delivered(k) == \E i \in DOMAIN stack : stack[i].op = k /\ stack[i].todo = <<>>

\* C7: an observer attached when an operation starts (the observer whose
\* attach starts it included) and attached since receives the start-fetch,
\* result and end-fetch broadcasts of the operation in this order and
\* nothing else: one after the first, two after the second, three after the
\* third; at the third, when queryFn resolved with d, the state is
\* {status: success, isFetching: false, data: d}.
C7_ThreeBroadcasts ==
  \A k \in DOMAIN ops :
    /\ \A o \in ops[k].stayed :
         /\ IsPrefix(received[o], ThreeBroadcasts(k))
         /\ ops[k].pc = "await" => Len(received[o]) = 1
         /\ (ops[k].pc = "result" /\ Delivered(k)) => Len(received[o]) = 2
         /\ (ops[k].pc = "end" /\ Delivered(k)) => Len(received[o]) = 3
    /\ (ops[k].pc = "end" /\ ops[k].res[1] = "ok") =>
         queries[ops[k].q].state =
           [status |-> "success", isFetching |-> FALSE, data |-> ops[k].res[2],
            error |-> UNDEFINED]

\* Scenario A: the observer whose attach started the first fetch has
\* received its third broadcast and reads the resolved state
C7_Witness ==
  /\ Len(ops) = 1
  /\ ops[1].pc = "end" /\ ops[1].res = <<"ok", "X">>
  /\ Delivered(1)
  /\ \E o \in ops[1].stayed : received[o] = ThreeBroadcasts(1)

\* C8 (Idempotent unsubscribe): in every reachable state, removing an
\* observer twice gives the entries that removing it once gives; and an
\* unsubscribe call that follows an unsubscribe call of the same observer
\* changes nothing of the Entry.
C8_UnsubscribeIdempotent ==
  /\ [](\A o \in ObsIds :
          observers[o].query # 0 =>
            LET once == unsubscribe(queries, observers[o].query, o)
            IN unsubscribe(once, observers[o].query, o) = once)
  /\ [][\A o \in ObsIds :
         (last.call = "unsubscribe" /\ last.o = o /\ Unsubscribe(o)) =>
           (queries' = queries /\ ops' = ops /\ live' = live /\ stack' = stack)]_vars

\* the unsubscribe function of an observer that was no longer subscribed was
\* invoked, on an Entry with another subscriber and a fetch in flight
C8_Witness ==
  /\ last.call = "unsubscribe" /\ ~last.flag
  /\ LET qi == observers[last.o].query
     IN /\ queries[qi].subscribers # <<>>
        /\ queries[qi].promise # NULL

\* C9 (as claimed): when no operation of an Entry is running, its promise
\* is null, so that the next fetch() starts an operation.
C9_HandleClearedAfterFetch ==
  \A qi \in DOMAIN queries : Running(qi) = {} => queries[qi].promise = NULL

\* C10 (as claimed): status = error implies error is set.
C10_ErrorImpliesErrorSet ==
  \A qi \in DOMAIN queries :
    queries[qi].state.status = "error" => queries[qi].state.error # UNDEFINED

\* C10 (amended): status = error implies error is set, except from the
\* start-fetch mutation of a refetch until its result is applied.
C10_ErrorSetUnlessRefetching ==
  \A qi \in DOMAIN queries :
    (queries[qi].state.status = "error" /\ queries[qi].state.error = UNDEFINED) =>
      \E k \in Running(qi) : ops[k].pc \in {"start", "await"}

\* a refetch started from the error state has failed in its turn
C10_Witness ==
  /\ Len(ops) = 2
  /\ ops[1].q = ops[2].q
  /\ ops[2].pc = "result" /\ ops[2].res[1] = "err"
  /\ queries[ops[2].q].state.status = "error"
  /\ queries[ops[2].q].state.error = ops[2].res[2]
  /\ queries[ops[2].q].state.data = UNDEFINED

\* the operations of entry qi that have applied their result (lines 122-132)
Applied(qi) == {k \in DOMAIN ops : ops[k].q = qi /\ ops[k].pc \in {"result", "end", "done"}}

\* C11: while status is loading, data and error are undefined; status is
\* loading exactly as long as no fetch of the Entry has applied a result,
\* and a status that is success or error never becomes loading.
C11_LoadingUntilFirstResult ==
  /\ [](\A qi \in DOMAIN queries :
          /\ queries[qi].state.status = "loading" =>
               (queries[qi].state.data = UNDEFINED /\ queries[qi].state.error = UNDEFINED)
          /\ queries[qi].state.status = "loading" <=> Applied(qi) = {})
  /\ [][\A qi \in DOMAIN queries :
         queries[qi].state.status # "loading" => queries'[qi].state.status # "loading"]_vars

\* a refetch of an Entry whose first fetch failed has applied its
\* start-fetch mutation (error is undefined again) and awaits queryFn:
\* status is still error
C11_Witness ==
  /\ Len(ops) = 2
  /\ ops[1].q = ops[2].q
  /\ ops[2].pc = "await"
  /\ queries[ops[2].q].state =
       [status |-> "error", isFetching |-> TRUE, data |-> UNDEFINED, error |-> UNDEFINED]

\* observer o has invoked its unsubscribe function and not subscribed since
Unsubscribed(o) == observers[o].notify = "callback" /\ o \notin live

\* the state of entry qi shows the result res
Shows(qi, res) ==
  /\ queries[qi].state.status = (IF res[1] = "ok" THEN "success" ELSE "error")
  /\ res[1] = "ok" => queries[qi].state.data = res[2]
  /\ res[1] = "err" => queries[qi].state.error = res[2]

\* C12 (No cancellation): an observer that has unsubscribed is invoked by no
\* broadcast until it subscribes again; an unsubscribe call leaves every
\* operation and the promise and state of the Entry as they are; an awaited
\* queryFn can settle and a synchronous run can always take its next step,
\* whoever is subscribed; and the result and end-fetch mutations of an
\* operation are applied to the state, whoever is subscribed.
C12_NoCancellation ==
  /\ [](\A o \in ObsIds :
          Unsubscribed(o) =>
            /\ received[o] = <<>>
            /\ \A i \in DOMAIN stack : Count(o, stack[i].notified) = 0)
  /\ [][\A o \in ObsIds :
         Unsubscribe(o) =>
           /\ \A k \in DOMAIN ops : ops'[k].pc = ops[k].pc
           /\ \A qi \in DOMAIN queries :
                /\ queries'[qi].promise = queries[qi].promise
                /\ queries'[qi].state = queries[qi].state]_vars
  /\ [](\A k \in DOMAIN ops :
          /\ (Idle /\ ops[k].pc = "await") =>
               \A res \in Outcomes : ENABLED QueryFnSettles(k, res)
          /\ ops[k].pc \in {"start", "result", "end"} => ENABLED Run
          /\ ops[k].pc \in {"result", "end"} => Shows(ops[k].q, ops[k].res)
          /\ ops[k].pc = "end" =>
               /\ queries[ops[k].q].promise = NULL
               /\ queries[ops[k].q].state.isFetching = FALSE)

\* the only observer of an Entry unsubscribed while the first fetch awaited
\* queryFn; the fetch has resolved with "X" and applied its result and
\* end-fetch mutations, and its broadcasts invoked nobody
C12_Witness ==
  /\ Len(ops) = 1
  /\ ops[1].pc = "end" /\ ops[1].res = <<"ok", "X">>
  /\ queries[ops[1].q].subscribers = <<>>
  /\ live = {}
  /\ \E o \in ObsIds : Unsubscribed(o) /\ observers[o].query = ops[1].q
  /\ Top.todo = <<>> /\ Top.notified = <<>>
  /\ queries[ops[1].q].state =
       [status |-> "success", isFetching |-> FALSE, data |-> "X", error |-> UNDEFINED]

\* the last n onChange invocations of observer o
LastReceived(o, n) ==
  IF Len(received[o]) < n THEN <<>>
  ELSE SubSeq(received[o], Len(received[o]) - n + 1, Len(received[o]))

\* C13: every observer attached to an Entry (when its fetch started or
\* while queryFn was awaited) is invoked by the result broadcast and then by
\* the end-fetch broadcast of that fetch; at every moment getResult() of
\* all observers bound to the Entry returns the same state, which after
\* the end-fetch mutation is the final state of the fetch.
C13_SameFinalState ==
  /\ \A k \in DOMAIN ops :
       \A o \in live :
         observers[o].query = ops[k].q =>
           /\ (ops[k].pc = "result" /\ Delivered(k)) =>
                LastReceived(o, 1) = <<<<k, "result">>>>
           /\ (ops[k].pc = "end" /\ Delivered(k)) =>
                /\ LastReceived(o, 2) = <<<<k, "result">>, <<k, "end">>>>
                /\ getResult(queries, o).isFetching = FALSE
                /\ getResult(queries, o).status = (IF ops[k].res[1] = "ok" THEN "success" ELSE "error")
                /\ ops[k].res[1] = "ok" => getResult(queries, o).data = ops[k].res[2]
                /\ ops[k].res[1] = "err" => getResult(queries, o).error = ops[k].res[2]
  /\ \A o1, o2 \in ObsIds :
       (observers[o1].query # 0 /\ observers[o1].query = observers[o2].query) =>
         getResult(queries, o1) = getResult(queries, o2)

\* Scenario C: one observer started the fetch, a second one attached while
\* queryFn was awaited; queryFn was invoked once and resolved with "Y", and
\* both observers have received the result and the end-fetch broadcast
C13_Witness ==
  /\ Len(ops) = 1
  /\ ops[1].pc = "end" /\ ops[1].res = <<"ok", "Y">>
  /\ Delivered(1)
  /\ \E o1, o2 \in live :
       /\ received[o1] = ThreeBroadcasts(1)
       /\ received[o2] = <<<<1, "result">>, <<1, "end">>>>
       /\ getResult(queries, o1).data = "Y" /\ getResult(queries, o2).data = "Y"

\* C14: a fetch() call made while the promise of the Entry is set starts no
\* operation, changes nothing of the Entry, delivers nothing and returns
\* that promise; an observer that attaches while the promise is set is
\* appended to the subscribers, and nothing else of the Entry changes and
\* no onChange is invoked.
C14_FetchInFlightNoOp ==
  [][\A qi \in DOMAIN queries :
       queries[qi].promise # NULL =>
         /\ CallFetch(qi) =>
              /\ queries' = queries /\ ops' = ops /\ stack' = stack
              /\ received' = received
              /\ last'.call = "fetch" /\ ~last'.flag
              /\ last'.handle = queries[qi].promise
         /\ \A o \in ObsIds :
              (observers[o].query = qi /\ Attach(o)) =>
                /\ queries' = [queries EXCEPT ![qi].subscribers = Append(@, o)]
                /\ ops' = ops
                /\ stack' = <<>>
                /\ \A p \in ObsIds : received'[p] = (IF p = o THEN <<>> ELSE received[p])
                /\ last'.call = "fetch" /\ ~last'.flag
                /\ last'.handle = queries[qi].promise]_vars

\* an observer has attached while queryFn was awaited and was invoked by
\* nothing; its fetch() returned the promise of the fetch in flight, which
\* the first observer started
C14_Witness ==
  /\ Idle
  /\ Len(ops) = 1 /\ ops[1].pc = "await"
  /\ last.call = "fetch" /\ ~last.flag /\ last.handle = 1
  /\ \E o1, o2 \in live :
       /\ queries[ops[1].q].subscribers = <<o1, o2>>
       /\ received[o1] = <<<<1, "start">>>>
       /\ received[o2] = <<>>

\* C16 (Refetch of a resolved Entry): a fetch that starts on an Entry whose
\* status is success sets isFetching and keeps status and data; they stay so
\* until the result of the fetch is applied; when queryFn fails with e the
\* status becomes error, error becomes e and data keeps the value of the
\* prior success, through the end-fetch mutation too.
C16_RefetchKeepsData ==
  [][\A qi \in DOMAIN queries :
       LET old == queries[qi].state
           new == queries'[qi].state
       IN /\ (old.status = "success" /\ Running(qi) = {} /\ Len(ops') > Len(ops)
                /\ ops'[Len(ops')].q = qi) =>
                new = [old EXCEPT !.isFetching = TRUE]
          /\ \A k \in Running(qi) :
               /\ (old.status = "success" /\ ops[k].pc \in {"start", "await"}) =>
                    /\ old.isFetching /\ old.data # UNDEFINED
                    /\ ops'[k].pc \in {"start", "await"} => new = old
                    /\ (ops'[k].pc = "result" /\ ops'[k].res[1] = "err") =>
                         new = [old EXCEPT !.status = "error", !.error = ops'[k].res[2]]
               /\ (ops[k].pc = "result" /\ ops[k].res[1] = "err" /\ ops'[k].pc = "end") =>
                    new = [old EXCEPT !.isFetching = FALSE]]_vars

\* the refetch of an Entry resolved with "X" has failed with "bang": the
\* catch block has run, status is error and data is still "X"
C16_Witness ==
  /\ Len(ops) = 2
  /\ ops[1].q = ops[2].q
  /\ ops[2].pc = "result" /\ ops[2].res = <<"err", "bang">>
  /\ queries[ops[2].q].state =
       [status |-> "error", isFetching |-> TRUE, data |-> "X", error |-> "bang"]

\* C19 (as claimed): in every reachable state of every Entry, a promise
\* that is set implies isFetching = true.
C19_HandleImpliesFetching ==
  \A qi \in DOMAIN queries :
    queries[qi].promise # NULL => queries[qi].state.isFetching = TRUE

\* the elements of t are elements of s, in the order they have in s
InOrderOf(t, s) ==
  \E f \in [DOMAIN t -> DOMAIN s] :
    /\ \A i \in DOMAIN t : s[f[i]] = t[i]
    /\ \A i, j \in DOMAIN t : i < j => f[i] < f[j]

C18_FetchTerminates ==
  \A k \in 1..MaxOps :
    (k \in DOMAIN ops /\ ops[k].pc = "start") ~>
      (/\ k \in DOMAIN ops
       /\ ops[k].pc = "end"
       /\ queries[ops[k].q].promise = NULL
       /\ queries[ops[k].q].state.isFetching = FALSE)

\* the second fetch of an Entry has run its finally block while a second
\* observer, attached during the await, is subscribed: the promise is
\* null and isFetching is false
C18_Witness ==
  /\ Len(ops) = 2
  /\ ops[1].q = ops[2].q
  /\ ops[2].pc = "end"
  /\ Cardinality(live) = 2
  /\ \E o \in live : Len(received[o]) = 2
  /\ queries[ops[2].q].promise = NULL
  /\ queries[ops[2].q].state.isFetching = FALSE

\* C15 (as claimed): in every reachable state an Entry has at most one
\* operation whose queryFn was invoked and has not settled, also when
\* fetch() is called by an onChange callback during a broadcast.
C15_SingleFlightReentrant ==
  \A qi \in DOMAIN queries : Cardinality(Awaiting(qi)) <= 1

\* C17 (Stable snapshot): in every broadcast, also when callbacks subscribe
\* and unsubscribe observers of the Entry while it is delivered, each
\* observer that was subscribed when the broadcast began is either still to
\* be visited or was invoked exactly once, and no other observer is visited
\* or invoked, so that at the end of the loop exactly the former were
\* invoked, once each; and the subscribers of an Entry are at any moment
\* the observers attached and not unsubscribed, which the next broadcast
\* iterates.
C17_StableSnapshot ==
  /\ \A i \in DOMAIN stack :
       \A o \in ObsIds :
         Count(o, stack[i].notified) + Count(o, stack[i].todo) =
           (IF o \in stack[i].expect THEN 1 ELSE 0)
  /\ \A qi \in DOMAIN queries :
       \A o \in ObsIds :
         Count(o, queries[qi].subscribers) =
           (IF o \in live /\ observers[o].query = qi THEN 1 ELSE 0)

\* the callback of an observer has subscribed a second observer during the
\* result broadcast of a fetch: the loop has finished and invoked the first
\* observer only, and the second one is in the subscribers
C17_Witness ==
  /\ ~Idle
  /\ ops[Top.op].pc = "result"
  /\ Top.todo = <<>>
  /\ \E o \in Reactive, o2 \in ObsIds \ Reactive :
       /\ Top.notified = <<o>>
       /\ Top.expect = {o}
       /\ queries[ops[Top.op].q].subscribers = <<o, o2>>
       /\ live = {o, o2}

====
